---- MODULE Spec2Model ----
(***************************************************************************)
(* Model of minesweeper.py: the Minesweeper board, the Sentence class and  *)
(* the MinesweeperAI knowledge engine.                                     *)
(*                                                                         *)
(* Cells are pairs <<i, j>>.  A Sentence is a record [cells, count].  The  *)
(* state of a MinesweeperAI object is the record                           *)
(* [moves_made, mines, safes, knowledge]; the methods are operators from   *)
(* such a record to the record after the call.                             *)
(***************************************************************************)
EXTENDS Integers, Sequences, FiniteSets, TLC

\* Bounds of the model.
\* MaxCells: most cells of a grid (every height x width up to it is built).
MaxCells == 6
\* MaxMines: most mines on a board.
MaxMines == 2
\* MaxClues: most add_knowledge calls in one play of the game loop.
MaxClues == 3
\* MaxAnyClues: most add_knowledge calls of an arbitrary caller.
MaxAnyClues == 2
\* MaxCount: largest count an arbitrary caller passes (and, negated, the least
\* count of a Sentence built on its own).
MaxCount == 1
\* MaxCallCells: most cells of a grid when marks, clues and moves are mixed.
MaxCallCells == 3
\* MaxLoopClues: most add_knowledge calls when the loop is followed pass by pass
\* (enough for len(knowledge) to leave the ints CPython shares).
MaxLoopClues == 257
\* MaxPasses: most passes of the do-while loop followed in one call.
MaxPasses == 2

VARIABLES
    height, width,   \* the dimensions given to Minesweeper and MinesweeperAI
    board,           \* Minesweeper.board: cell -> is it a mine
    moves_made,      \* MinesweeperAI.moves_made
    mines,           \* MinesweeperAI.mines
    safes,           \* MinesweeperAI.safes
    knowledge,       \* MinesweeperAI.knowledge: sequence of Sentences
    ret,             \* the last call made and what it returned
    pc,              \* "idle", "loop" inside the do-while loop of add_knowledge,
                     \* or "placing" inside the while loop of Minesweeper.__init__
    passes,          \* passes of the do-while loop made in the current call
    caller_ok,       \* every add_knowledge call so far was for a cell that is
                     \* not a mine, with count = nearby_mines(cell)
    game_mines,      \* Minesweeper.mines: the cells a mine was placed on
    mine_count       \* the argument mines of Minesweeper.__init__

vars == <<height, width, board, moves_made, mines, safes, knowledge, ret, pc, passes,
          caller_ok, game_mines, mine_count>>

\* Python's None as a move result.
None == <<>>

\* `a is b` on two ints.  CPython keeps one object per int in -5..256, so on
\* these `is` agrees with ==; two ints computed outside that range (the two
\* results of len(), a sum and a product) are distinct objects.
Is(a, b) == a = b /\ a \in -5..256

Grid(h, w) == (0..(h - 1)) \X (0..(w - 1))

\* Faulty variant of get_neighbors: the cells of the same row or column only.
get_neighbors_orthogonal(cell, h, w) ==
    {c \in ((cell[1] - 1)..(cell[1] + 1)) \X ((cell[2] - 1)..(cell[2] + 1)) :
        /\ c # cell
        /\ (c[1] = cell[1] \/ c[2] = cell[2])
        /\ 0 <= c[1] /\ c[1] < h
        /\ 0 <= c[2] /\ c[2] < w}

\* The cells within one row and column of cell, without cell, inside the grid.
get_neighbors(cell, h, w) ==
    {c \in ((cell[1] - 1)..(cell[1] + 1)) \X ((cell[2] - 1)..(cell[2] + 1)) :
        /\ c # cell
        /\ 0 <= c[1] /\ c[1] < h
        /\ 0 <= c[2] /\ c[2] < w}

\* Minesweeper.nearby_mines: number of mines among the in-bounds neighbours.
nearby_mines(b, cell, h, w) ==
    Cardinality({c \in ((cell[1] - 1)..(cell[1] + 1)) \X ((cell[2] - 1)..(cell[2] + 1)) :
        /\ c # cell
        /\ 0 <= c[1] /\ c[1] < h
        /\ 0 <= c[2] /\ c[2] < w
        /\ b[c]})

\* Minesweeper.is_mine for a cell inside the grid.
is_mine(b, cell) == b[cell]

(***************************************************************************)
(* Sentence                                                                *)
(***************************************************************************)
Sentence(cells, count) == [cells |-> cells, count |-> count]

\* Faulty variant of known_mines: any positive count makes every cell a mine.
known_mines_positive(s) == IF s.count > 0 THEN s.cells ELSE {}

\* Faulty variant of known_mines: `<=` in place of `==`.
known_mines_atleast(s) == IF Cardinality(s.cells) <= s.count THEN s.cells ELSE {}

known_mines(s) == IF Cardinality(s.cells) = s.count THEN s.cells ELSE {}

\* Faulty variant of known_safes: tests the number of cells, not the count.
known_safes_len(s) == IF Is(Cardinality(s.cells), 0) THEN s.cells ELSE {}

known_safes(s) == IF Is(s.count, 0) THEN s.cells ELSE {}

\* Faulty variant of Sentence.mark_mine: the count is not decremented.
Sentence_mark_mine_keepcount(s, cell) ==
    IF cell \in s.cells
    THEN [cells |-> s.cells \ {cell}, count |-> s.count]
    ELSE s

Sentence_mark_mine(s, cell) ==
    IF cell \in s.cells
    THEN [cells |-> s.cells \ {cell}, count |-> s.count - 1]
    ELSE s

\* Faulty variant of Sentence.mark_safe: the count is decremented as well.
Sentence_mark_safe_decrement(s, cell) ==
    IF cell \in s.cells
    THEN [cells |-> s.cells \ {cell}, count |-> s.count - 1]
    ELSE s

Sentence_mark_safe(s, cell) ==
    IF cell \in s.cells
    THEN [cells |-> s.cells \ {cell}, count |-> s.count]
    ELSE s

(***************************************************************************)
(* MinesweeperAI                                                           *)
(***************************************************************************)
AI_init == [moves_made |-> {}, mines |-> {}, safes |-> {}, knowledge |-> <<>>]

\* for sentence in self.knowledge: sentence.mark_mine(cell)
\* (SubSeq over the whole length: the result as a sequence value)
each_mark_mine(k, cell) ==
    SubSeq([i \in DOMAIN k |-> Sentence_mark_mine(k[i], cell)], 1, Len(k))

\* Faulty variant of each_mark_safe: a sentence left without cells is dropped.
each_mark_safe_pruning(k, cell) ==
    SelectSeq(SubSeq([i \in DOMAIN k |-> Sentence_mark_safe(k[i], cell)], 1, Len(k)),
              LAMBDA t : t.cells # {})

\* for sentence in self.knowledge: sentence.mark_safe(cell)
each_mark_safe(k, cell) ==
    SubSeq([i \in DOMAIN k |-> Sentence_mark_safe(k[i], cell)], 1, Len(k))

mark_mine(ai, cell) ==
    [ai EXCEPT !.mines = @ \cup {cell},
               !.knowledge = each_mark_mine(@, cell)]

mark_safe(ai, cell) ==
    [ai EXCEPT !.safes = @ \cup {cell},
               !.knowledge = each_mark_safe(@, cell)]

\* for mine in self.mines: self.mark_mine(mine)
\* (todo: the cells the loop has not visited yet, c: the one it visits next)
RECURSIVE mark_all_mines(_, _)
mark_all_mines(ai, todo) ==
    IF todo = {} THEN ai
    ELSE CHOOSE r \in {mark_all_mines(mark_mine(ai, c), todo \ {c}) :
                          c \in {CHOOSE x \in todo : TRUE}} : TRUE

\* for safe in self.safes: self.mark_safe(safe)
RECURSIVE mark_all_safes(_, _)
mark_all_safes(ai, todo) ==
    IF todo = {} THEN ai
    ELSE CHOOSE r \in {mark_all_safes(mark_safe(ai, c), todo \ {c}) :
                          c \in {CHOOSE x \in todo : TRUE}} : TRUE

\* for sentence in self.knowledge: union known_safes() / known_mines() into
\* self.safes / self.mines (the loop changes no sentence).
collect_known(ai) ==
    [ai EXCEPT !.safes = @ \cup UNION {known_safes(ai.knowledge[i]) : i \in DOMAIN ai.knowledge},
               !.mines = @ \cup UNION {known_mines(ai.knowledge[i]) : i \in DOMAIN ai.knowledge}]

\* MinesweeperAI.__infer_new_knowledge: one propagation pass: the three for
\* loops one after the other ({e : x \in {d}} names the value of d as x).
infer_new_knowledge(ai) ==
    CHOOSE r \in {collect_known(a2) :
                     a2 \in {mark_all_safes(a1, a1.safes) :
                                a1 \in {mark_all_mines(a0, a0.mines) : a0 \in {ai}}}} : TRUE

\* Faulty variant of add_knowledge_begin: step 2), mark_safe(cell), left out.
add_knowledge_begin_unmarked(ai, cell, count, h, w) ==
    [ai EXCEPT !.moves_made = @ \cup {cell},
               !.knowledge = Append(@, Sentence(get_neighbors(cell, h, w), count))]

\* add_knowledge up to the do-while loop: steps 1) to 3).
add_knowledge_begin(ai, cell, count, h, w) ==
    LET a1 == [ai EXCEPT !.moves_made = @ \cup {cell}]
        a2 == mark_safe(a1, cell)
    IN  [a2 EXCEPT !.knowledge = Append(@, Sentence(get_neighbors(cell, h, w), count))]

\* The exit test of the do-while loop, on the lengths before and after a pass.
loop_exit(before, after) == Is(before, after)

\* The do-while loop of add_knowledge.
RECURSIVE add_knowledge_loop(_)
add_knowledge_loop(ai) ==
    LET a1 == infer_new_knowledge(ai)
    IN  IF loop_exit(Len(ai.knowledge), Len(a1.knowledge)) THEN a1
        ELSE add_knowledge_loop(a1)

add_knowledge(ai, cell, count, h, w) ==
    add_knowledge_loop(add_knowledge_begin(ai, cell, count, h, w))

\* Faulty variant of no_moves_remaining: counts safes in place of moves_made.
no_moves_remaining_safes(ai, h, w) ==
    Is(Cardinality(ai.safes) + Cardinality(ai.mines), h * w)

\* The terminal check shared by make_safe_move and make_random_move.
no_moves_remaining(ai, h, w) ==
    Is(Cardinality(ai.moves_made) + Cardinality(ai.mines), h * w)

\* Faulty variant of make_safe_move: moves_made is not taken out of safes.
make_safe_move_repeats(ai, h, w) ==
    IF Is(Cardinality(ai.moves_made) + Cardinality(ai.mines), h * w) THEN {None}
    ELSE IF Is(Cardinality(ai.safes), 0) THEN {None} ELSE ai.safes

\* The values make_safe_move can return (random.sample as it works on a set up
\* to Python 3.10: any one element).
make_safe_move(ai, h, w) ==
    IF no_moves_remaining(ai, h, w) THEN {None}
    ELSE LET safe_moves == ai.safes \ ai.moves_made
         IN  IF Is(Cardinality(safe_moves), 0) THEN {None} ELSE safe_moves

\* Row-major order of the two nested range() loops.
RowMajorLess(a, b) == a[1] < b[1] \/ (a[1] = b[1] /\ a[2] < b[2])

\* The values make_random_move can return: the first cell in row-major order
\* that is neither a known mine nor a move made; None when the loops run out.
make_random_move(ai, h, w) ==
    IF no_moves_remaining(ai, h, w) THEN {None}
    ELSE LET rest == {c \in Grid(h, w) : c \notin ai.mines /\ c \notin ai.moves_made}
         IN  IF rest = {} THEN {None}
             ELSE {c \in rest : \A d \in rest : d = c \/ RowMajorLess(c, d)}

(***************************************************************************)
(* State machine                                                           *)
(***************************************************************************)
AI == [moves_made |-> moves_made, mines |-> mines, safes |-> safes,
       knowledge |-> knowledge]

SetAI(ai) ==
    /\ moves_made' = ai.moves_made
    /\ mines' = ai.mines
    /\ safes' = ai.safes
    /\ knowledge' = ai.knowledge

\* The boards Minesweeper.__init__ can build: exactly n cells are mines.
Boards(h, w, n) ==
    {b \in [Grid(h, w) -> BOOLEAN] : Cardinality({c \in Grid(h, w) : b[c]}) = n}

NoCall == [op |-> "none", cell |-> None, count |-> 0, val |-> None]

\* MinesweeperAI(height, width) next to a board of the same dimensions.
InitAI ==
    /\ height \in 1..MaxCells
    /\ width \in 1..MaxCells
    /\ height * width <= MaxCells
    /\ moves_made = AI_init.moves_made
    /\ mines = AI_init.mines
    /\ safes = AI_init.safes
    /\ knowledge = AI_init.knowledge
    /\ ret = NoCall
    /\ pc = "idle"
    /\ passes = 0
    /\ caller_ok = TRUE

\* Minesweeper(height, width, n) and MinesweeperAI(height, width).
Init ==
    /\ InitAI
    /\ \E n \in 0..MaxMines :
          /\ n <= height * width
          /\ board \in Boards(height, width, n)
          /\ mine_count = n
    /\ game_mines = {c \in Grid(height, width) : board[c]}

\* The smallest game: one cell, no mine.
InitLoop ==
    /\ InitAI
    /\ height = 1
    /\ width = 1
    /\ board \in Boards(height, width, 0)
    /\ game_mines = {}
    /\ mine_count = 0

\* Whether add_knowledge(cell, count) is a call the game loop makes.
GameLoopCall(cell, count) ==
    /\ cell \in Grid(height, width)
    /\ ~is_mine(board, cell)
    /\ count = nearby_mines(board, cell, height, width)

Called(op, cell, count, val) == [op |-> op, cell |-> cell, count |-> count, val |-> val]

\* The game loop reveals a cell that is not a mine and feeds its clue.
RecordClue ==
    /\ pc = "idle"
    /\ Len(knowledge) < MaxClues
    /\ \E cell \in Grid(height, width) :
          /\ ~is_mine(board, cell)
          /\ LET count == nearby_mines(board, cell, height, width)
             IN  /\ SetAI(add_knowledge(AI, cell, count, height, width))
                 /\ ret' = Called("add_knowledge", cell, count, None)
    /\ UNCHANGED <<height, width, board, game_mines, mine_count, pc, passes, caller_ok>>

\* add_knowledge called with any cell of the grid and any count.
RecordClueAny ==
    /\ pc = "idle"
    /\ Len(knowledge) < MaxAnyClues
    /\ \E cell \in Grid(height, width), count \in 0..MaxCount :
          /\ SetAI(add_knowledge(AI, cell, count, height, width))
          /\ ret' = Called("add_knowledge", cell, count, None)
          /\ caller_ok' = (caller_ok /\ GameLoopCall(cell, count))
    /\ UNCHANGED <<height, width, board, game_mines, mine_count, pc, passes>>

\* Faulty variant of SafeMove: the move returned is recorded in moves_made.
SafeMove_recording ==
    /\ pc = "idle"
    /\ \E v \in make_safe_move(AI, height, width) :
          /\ ret' = Called("make_safe_move", None, 0, v)
          /\ moves_made' = IF v = None THEN moves_made ELSE moves_made \cup {v}
    /\ UNCHANGED <<height, width, board, game_mines, mine_count, mines, safes, knowledge, pc,
                   passes, caller_ok>>

SafeMove ==
    /\ pc = "idle"
    /\ \E v \in make_safe_move(AI, height, width) :
          ret' = Called("make_safe_move", None, 0, v)
    /\ UNCHANGED <<height, width, board, game_mines, mine_count, moves_made, mines, safes,
                   knowledge, pc, passes, caller_ok>>

RandomMove ==
    /\ pc = "idle"
    /\ \E v \in make_random_move(AI, height, width) :
          ret' = Called("make_random_move", None, 0, v)
    /\ UNCHANGED <<height, width, board, game_mines, mine_count, moves_made, mines, safes,
                   knowledge, pc, passes, caller_ok>>

\* MinesweeperAI.mark_safe called from outside with any cell of the grid.
MarkSafe ==
    /\ pc = "idle"
    /\ \E cell \in Grid(height, width) :
          /\ SetAI(mark_safe(AI, cell))
          /\ ret' = Called("mark_safe", None, 0, None)
    /\ UNCHANGED <<height, width, board, game_mines, mine_count, pc, passes, caller_ok>>

\* MinesweeperAI.mark_mine called from outside with any cell of the grid.
MarkMine ==
    /\ pc = "idle"
    /\ \E cell \in Grid(height, width) :
          /\ SetAI(mark_mine(AI, cell))
          /\ ret' = Called("mark_mine", None, 0, None)
    /\ UNCHANGED <<height, width, board, game_mines, mine_count, pc, passes, caller_ok>>

\* The game loop: moves asked of the engine, clues of the board fed to it.
Next == RecordClue \/ SafeMove \/ RandomMove

Spec == Init /\ [][Next]_vars

\* Any caller of add_knowledge.
NextAny == RecordClueAny

SpecAny == Init /\ [][NextAny]_vars

\* Any caller of the engine: clues, marks and moves in any order.
NextCalls == RecordClueAny \/ MarkSafe \/ MarkMine \/ SafeMove \/ RandomMove

\* MinesweeperAI(height, width) on the grids of up to MaxCallCells cells that
\* are no higher than wide, next to a board without mines (the engine never
\* reads the board).
InitCalls ==
    /\ InitAI
    /\ height * width <= MaxCallCells
    /\ height <= width
    /\ board \in Boards(height, width, 0)
    /\ game_mines = {}
    /\ mine_count = 0

SpecCalls == InitCalls /\ [][NextCalls]_vars

\* add_knowledge pass by pass: the call up to the loop (steps 1 to 3), then
\* one pass of the do-while loop at a time.  The clue of a cell is fed again
\* and again, so that knowledge grows long.
BeginClue ==
    /\ pc = "idle"
    /\ Len(knowledge) < MaxLoopClues
    /\ \E cell \in Grid(height, width) :
          /\ ~is_mine(board, cell)
          /\ LET count == nearby_mines(board, cell, height, width)
             IN  /\ SetAI(add_knowledge_begin(AI, cell, count, height, width))
                 /\ ret' = Called("add_knowledge", cell, count, None)
    /\ pc' = "loop"
    /\ passes' = 0
    /\ UNCHANGED <<height, width, board, game_mines, mine_count, caller_ok>>

LoopPass ==
    /\ pc = "loop"
    /\ passes < MaxPasses
    /\ \E a1 \in {infer_new_knowledge(AI)} :
          /\ SetAI(a1)
          /\ pc' = IF loop_exit(Len(knowledge), Len(a1.knowledge)) THEN "idle" ELSE "loop"
    /\ passes' = passes + 1
    /\ UNCHANGED <<height, width, board, game_mines, mine_count, ret, caller_ok>>

NextLoop == BeginClue \/ LoopPass

\* A call that has started runs on: the interpreter executes the loop.
SpecLoop == InitLoop /\ [][NextLoop]_vars /\ WF_vars(LoopPass)

(***************************************************************************)
(* Minesweeper: construction of the board and is_mine                      *)
(***************************************************************************)
\* The board after the two nested for loops of __init__: no mine anywhere.
EmptyBoard(h, w) == [c \in Grid(h, w) |-> FALSE]

\* Minesweeper(height, width, mine_count) at the top of its while loop.
InitBoard ==
    /\ height \in 1..MaxCells
    /\ width \in 1..MaxCells
    /\ height * width <= MaxCells
    /\ mine_count \in 0..MaxMines
    /\ board = EmptyBoard(height, width)
    /\ game_mines = {}
    /\ moves_made = AI_init.moves_made
    /\ mines = AI_init.mines
    /\ safes = AI_init.safes
    /\ knowledge = AI_init.knowledge
    /\ ret = NoCall
    /\ pc = "placing"
    /\ passes = 0
    /\ caller_ok = TRUE

\* Faulty variant of PlaceMine: the cell is added to mines, the board not set.
PlaceMine_unset ==
    /\ pc = "placing"
    /\ Cardinality(game_mines) # mine_count
    /\ \E i \in 0..(height - 1), j \in 0..(width - 1) :
          IF ~board[<<i, j>>]
          THEN game_mines' = game_mines \cup {<<i, j>>} /\ board' = board
          ELSE UNCHANGED <<board, game_mines>>
    /\ UNCHANGED <<height, width, mine_count, moves_made, mines, safes, knowledge, ret,
                   pc, passes, caller_ok>>

\* One iteration of `while len(self.mines) != mines`: a cell drawn with
\* random.randrange gets a mine unless it has one.
PlaceMine ==
    /\ pc = "placing"
    /\ Cardinality(game_mines) # mine_count
    /\ \E i \in 0..(height - 1), j \in 0..(width - 1) :
          IF ~board[<<i, j>>]
          THEN /\ game_mines' = game_mines \cup {<<i, j>>}
               /\ board' = [board EXCEPT ![<<i, j>>] = TRUE]
          ELSE UNCHANGED <<board, game_mines>>
    /\ UNCHANGED <<height, width, mine_count, moves_made, mines, safes, knowledge, ret,
                   pc, passes, caller_ok>>

\* The while loop is left and the constructor returns.
Built ==
    /\ pc = "placing"
    /\ Cardinality(game_mines) = mine_count
    /\ pc' = "idle"
    /\ UNCHANGED <<height, width, board, game_mines, mine_count, moves_made, mines, safes,
                   knowledge, ret, passes, caller_ok>>

\* Whether a[i] on a Python list of length n finds an element (it raises
\* IndexError otherwise), and the position it reads: a negative i counts from
\* the end of the list.
in_index_range(n, i) == -n <= i /\ i < n

index_read(n, i) == IF i < 0 THEN n + i ELSE i

\* Minesweeper.is_mine on any pair of ints: what the call returns, or the
\* exception it raises.  self.board has height rows of width entries.
is_mine_outcome(b, cell, h, w) ==
    IF in_index_range(h, cell[1]) /\ in_index_range(w, cell[2])
    THEN IF b[<<index_read(h, cell[1]), index_read(w, cell[2])>>] THEN "True" ELSE "False"
    ELSE "IndexError"

\* The coordinates is_mine is asked about: the grid and a margin around it.
Probes(h, w) == ((0 - h - 1)..h) \X ((0 - w - 1)..w)

IsMine ==
    /\ pc = "idle"
    /\ \E cell \in Probes(height, width) :
          ret' = Called("is_mine", cell, 0, is_mine_outcome(board, cell, height, width))
    /\ UNCHANGED <<height, width, board, game_mines, mine_count, moves_made, mines, safes,
                   knowledge, pc, passes, caller_ok>>

NextBoard == PlaceMine \/ Built \/ IsMine

SpecBoard == InitBoard /\ [][NextBoard]_vars

(***************************************************************************)
(* One Sentence and its four methods                                       *)
(***************************************************************************)
\* Sentence(cells, count) for any cells of a grid and any count; the sentence
\* is kept as the one element of knowledge.
InitSentence ==
    /\ height \in 1..MaxCells
    /\ width \in 1..MaxCells
    /\ height * width <= MaxCells
    /\ board = EmptyBoard(height, width)
    /\ game_mines = {}
    /\ mine_count = 0
    /\ moves_made = AI_init.moves_made
    /\ mines = AI_init.mines
    /\ safes = AI_init.safes
    /\ \E cells \in SUBSET Grid(height, width), count \in (0 - MaxCount)..MaxCells :
          knowledge = <<Sentence(cells, count)>>
    /\ ret = NoCall
    /\ pc = "idle"
    /\ passes = 0
    /\ caller_ok = TRUE

KnownMines ==
    /\ ret' = Called("known_mines", None, 0, known_mines(knowledge[1]))
    /\ UNCHANGED <<height, width, board, game_mines, mine_count, moves_made, mines, safes,
                   knowledge, pc, passes, caller_ok>>

KnownSafes ==
    /\ ret' = Called("known_safes", None, 0, known_safes(knowledge[1]))
    /\ UNCHANGED <<height, width, board, game_mines, mine_count, moves_made, mines, safes,
                   knowledge, pc, passes, caller_ok>>

SentenceMarkMine ==
    /\ \E cell \in Grid(height, width) :
          /\ knowledge' = <<Sentence_mark_mine(knowledge[1], cell)>>
          /\ ret' = Called("Sentence.mark_mine", cell, 0, None)
    /\ UNCHANGED <<height, width, board, game_mines, mine_count, moves_made, mines, safes,
                   pc, passes, caller_ok>>

SentenceMarkSafe ==
    /\ \E cell \in Grid(height, width) :
          /\ knowledge' = <<Sentence_mark_safe(knowledge[1], cell)>>
          /\ ret' = Called("Sentence.mark_safe", cell, 0, None)
    /\ UNCHANGED <<height, width, board, game_mines, mine_count, moves_made, mines, safes,
                   pc, passes, caller_ok>>

NextSentence == KnownMines \/ KnownSafes \/ SentenceMarkMine \/ SentenceMarkSafe

SpecSentence == InitSentence /\ [][NextSentence]_vars

TypeOK ==
    /\ height \in 1..MaxCells /\ width \in 1..MaxCells
    /\ moves_made \subseteq Grid(height, width)
    /\ mines \subseteq Grid(height, width)
    /\ safes \subseteq Grid(height, width)
    /\ \A i \in DOMAIN knowledge : knowledge[i].cells \subseteq Grid(height, width)
    /\ pc \in {"idle", "loop", "placing"}
    /\ game_mines \subseteq Grid(height, width)
    /\ passes \in 0..MaxPasses

(***************************************************************************)
(* Properties                                                              *)
(***************************************************************************)
Sum == Cardinality(moves_made) + Cardinality(mines)

Returned(op) == ret.op = op

\* C1: when add_knowledge has returned in a play of the game loop, one more
\* propagation pass with no new clue leaves safes, mines and every sentence
\* (cells and count) as they were.
C1_FixedPoint == infer_new_knowledge(AI) = AI

\* C2: when add_knowledge has returned, for every two distinct sentences S1, S2
\* with S1.cells a non-empty proper subset of S2.cells the knowledge holds a
\* sentence equal to (S2.cells - S1.cells, S2.count - S1.count).
C2_SubsetInference ==
    \A i, j \in DOMAIN knowledge :
        (/\ i # j
         /\ knowledge[i].cells # {}
         /\ knowledge[i].cells \subseteq knowledge[j].cells
         /\ knowledge[i].cells # knowledge[j].cells)
        => \E k \in DOMAIN knowledge :
              knowledge[k] = Sentence(knowledge[j].cells \ knowledge[i].cells,
                                      knowledge[j].count - knowledge[i].count)

\* C3: in a play of the game loop, when add_knowledge(cell, 0) has returned
\* every neighbour of cell inside the grid is in safes; on the 1x3 grid without
\* mines, after the clues of (0,0) and (0,1), (0,2) is in safes and is the one
\* value make_safe_move returns.
C3_ZeroClue ==
    /\ (Returned("add_knowledge") /\ ret.count = 0)
         => get_neighbors(ret.cell, height, width) \subseteq safes
    /\ (/\ height = 1 /\ width = 3
        /\ \A c \in Grid(height, width) : ~board[c]
        /\ moves_made = {<<0, 0>>, <<0, 1>>})
         => (<<0, 2>> \in safes /\ make_safe_move(AI, height, width) = {<<0, 2>>})

C3_Witness ==
    /\ height = 1 /\ width = 3
    /\ Returned("add_knowledge") /\ ret.cell = <<0, 1>> /\ ret.count = 0
    /\ moves_made = {<<0, 0>>, <<0, 1>>}
    /\ Len(knowledge) = 2
    /\ <<0, 2>> \in safes

\* C4 as claimed: safes and mines are disjoint whenever add_knowledge has
\* returned, whatever calls were made.
C4_DisjointAnyCalls == safes \cap mines = {}

\* C4 amended: safes and mines are disjoint whenever add_knowledge has returned,
\* as long as every call was one of the game loop (the cell is not a mine and
\* count is its nearby_mines).
C4_DisjointGameLoop == caller_ok => safes \cap mines = {}

C4_Witness ==
    /\ caller_ok
    /\ Returned("add_knowledge")
    /\ Len(knowledge) = 2
    /\ mines # {}
    /\ safes \ moves_made # {}

\* C5: moves_made is a subset of safes after any sequence of add_knowledge calls.
C5_MovesAreSafe == moves_made \subseteq safes

C5_Witness ==
    /\ ~caller_ok
    /\ Returned("add_knowledge")
    /\ Cardinality(moves_made) = 2
    /\ moves_made \cap mines # {}

\* C6 as claimed: make_safe_move and make_random_move each return None exactly
\* when |moves_made| + |mines| = height * width.
C6_NoneIffExhausted ==
    (Returned("make_safe_move") \/ Returned("make_random_move"))
       => (ret.val = None <=> Sum = height * width)

\* C6 amended: in a play of the game loop make_random_move returns None exactly
\* when |moves_made| + |mines| = height * width, and make_safe_move returns None
\* exactly when that holds or safes - moves_made is empty.
C6_NoneIff ==
    /\ Returned("make_random_move")
         => (ret.val = None <=> Sum = height * width)
    /\ Returned("make_safe_move")
         => (ret.val = None <=> (Sum = height * width \/ safes \ moves_made = {}))

C6_Witness ==
    /\ Returned("make_random_move")
    /\ ret.val = None
    /\ mines # {}
    /\ Cardinality(moves_made) >= 2

\* C7: a cell make_safe_move returns is in safes and not in moves_made; it
\* returns None when safes - moves_made is empty; every cell of
\* safes - moves_made is a value it can return.
C7_SafeMove ==
    /\ (Returned("make_safe_move") /\ ret.val # None)
         => (ret.val \in safes /\ ret.val \notin moves_made)
    /\ (Returned("make_safe_move") /\ safes \ moves_made = {}) => ret.val = None
    /\ \A c \in safes \ moves_made : c \in make_safe_move(AI, height, width)

C7_Witness ==
    /\ Returned("make_safe_move")
    /\ ret.val # None
    /\ Cardinality(safes \ moves_made) >= 2
    /\ mines # {}

\* C8: a cell make_random_move returns is in the grid, not in mines and not in
\* moves_made, and every cell of the grid that is neither in mines nor in
\* moves_made is a value it can return.
C8_RandomMove ==
    /\ (Returned("make_random_move") /\ ret.val # None)
         => /\ ret.val \in Grid(height, width)
            /\ ret.val \notin mines
            /\ ret.val \notin moves_made
    /\ \A c \in (Grid(height, width) \ mines) \ moves_made :
          c \in make_random_move(AI, height, width)

\* C9: a call of make_safe_move or make_random_move leaves safes, mines,
\* moves_made and knowledge unchanged.
C9_ReadOnly ==
    [][ret'.op \in {"make_safe_move", "make_random_move"}
          => UNCHANGED <<safes, mines, moves_made, knowledge>>]_vars

C9_Witness ==
    /\ Returned("make_random_move")
    /\ ret.val # None
    /\ Len(knowledge) >= 1
    /\ safes \ moves_made # {}

\* C10: every add_knowledge call returns: the do-while loop is left after
\* finitely many passes.  A pass that changes nothing in the engine is the
\* last one (the loop has reached its fixed point; were it not left then, the
\* same pass would be made for ever).
C10_LoopExits == [][(pc = "loop" /\ AI' = AI) => pc' = "idle"]_vars

\* C11: for any sequence of add_knowledge calls with arbitrary cells and counts,
\* a call that breaks a precondition (a mark_mine that takes a count below
\* zero, a clue for a cell already in moves_made) ends in an error, so that no
\* state reached holds a sentence with a negative count.
C11_NoNegativeCount == \A i \in DOMAIN knowledge : knowledge[i].count >= 0

\* C12: when Minesweeper.__init__ has returned for mine_count <= height * width,
\* mines has exactly mine_count cells, all of them inside the grid, and is the
\* set of the cells whose board entry is true.
C12_BoardBuilt ==
    (pc = "idle" /\ mine_count <= height * width)
       => /\ Cardinality(game_mines) = mine_count
          /\ game_mines \subseteq Grid(height, width)
          /\ game_mines = {c \in Grid(height, width) : board[c]}

C12_Witness ==
    /\ pc = "idle"
    /\ height = 2 /\ width = 2
    /\ mine_count = 2
    /\ game_mines = {<<0, 1>>, <<1, 0>>}

\* C13: Minesweeper.__init__ with mine_count > height * width ends in an error:
\* it never gets to where every cell holds a mine and the while loop still
\* asks for another one (no iteration changes anything from there on, and the
\* loop is never left).
C13_InvalidConfigurationError ==
    (pc = "placing" /\ mine_count > height * width)
       => game_mines # Grid(height, width)

\* C14: is_mine(cell) returns the board entry of every cell inside the grid and
\* raises an error for every pair outside it, a negative row or column
\* included.
C14_IsMine ==
    Returned("is_mine")
       => IF ret.cell \in Grid(height, width)
          THEN ret.val = (IF board[ret.cell] THEN "True" ELSE "False")
          ELSE ret.val = "IndexError"

\* C15: for every Sentence, known_mines returns cells when count = |cells| and
\* the empty set otherwise; known_safes returns cells when count = 0 and the
\* empty set otherwise.
C15_Known ==
    /\ Returned("known_mines")
         => ret.val = IF knowledge[1].count = Cardinality(knowledge[1].cells)
                      THEN knowledge[1].cells ELSE {}
    /\ Returned("known_safes")
         => ret.val = IF knowledge[1].count = 0 THEN knowledge[1].cells ELSE {}

C15_Witness ==
    /\ Returned("known_mines")
    /\ Cardinality(knowledge[1].cells) = 2
    /\ knowledge[1].count = 2
    /\ ret.val = knowledge[1].cells

\* C16: Sentence.mark_mine(cell) with cell in cells removes that cell and nothing
\* else and takes 1 off count; Sentence.mark_safe(cell) with cell in cells
\* removes that cell and nothing else and leaves count; with cell not in cells
\* either leaves cells and count as they were; neither makes cells larger.
C16_Reduce ==
    [][/\ ret'.op = "Sentence.mark_mine"
            => knowledge'[1] = IF ret'.cell \in knowledge[1].cells
                               THEN [cells |-> knowledge[1].cells \ {ret'.cell},
                                     count |-> knowledge[1].count - 1]
                               ELSE knowledge[1]
       /\ ret'.op = "Sentence.mark_safe"
            => knowledge'[1] = IF ret'.cell \in knowledge[1].cells
                               THEN [cells |-> knowledge[1].cells \ {ret'.cell},
                                     count |-> knowledge[1].count]
                               ELSE knowledge[1]
       /\ Cardinality(knowledge'[1].cells) <= Cardinality(knowledge[1].cells)]_vars

C16_Witness ==
    /\ Returned("Sentence.mark_mine")
    /\ ret.cell \notin knowledge[1].cells
    /\ knowledge[1].cells # {}
    /\ knowledge[1].count < 0 - MaxCount

\* C17: in a play of the game loop no cell of safes is a mine of the board,
\* every cell of mines is a mine of the board, and make_safe_move never
\* returns a mine.
C17_Sound ==
    /\ \A c \in safes : ~is_mine(board, c)
    /\ \A c \in mines : is_mine(board, c)
    /\ \A v \in make_safe_move(AI, height, width) : v # None => ~is_mine(board, v)
    /\ (Returned("make_safe_move") /\ ret.val # None) => ~is_mine(board, ret.val)

C17_Witness ==
    /\ Returned("make_safe_move")
    /\ ret.val # None
    /\ mines # {}
    /\ Cardinality(game_mines) = 2
    /\ height = 2

\* C18: when add_knowledge has returned no sentence holds a cell that is in
\* safes or in mines; a sentence {A, B} = 0 has put A and B into safes and has
\* itself become {} = 0.
C18_FullyReduced ==
    \A i \in DOMAIN knowledge : knowledge[i].cells \cap (safes \cup mines) = {}

\* C19: in a play of the game loop every sentence has 0 <= count <= |cells|
\* whenever add_knowledge has returned.
C19_CountInRange ==
    \A i \in DOMAIN knowledge :
        0 <= knowledge[i].count /\ knowledge[i].count <= Cardinality(knowledge[i].cells)

C19_Witness ==
    /\ Returned("add_knowledge")
    /\ Len(knowledge) = 3
    /\ mines # {}
    /\ \E i \in DOMAIN knowledge :
          knowledge[i].count = 1 /\ Cardinality(knowledge[i].cells) = 2
    /\ \E i \in DOMAIN knowledge : knowledge[i].cells = {}

\* C20: across any sequence of add_knowledge, mark_safe, mark_mine and move
\* calls, safes, mines and moves_made never lose a cell, no sentence is ever
\* removed from knowledge, and the cells of a sentence never gain a cell.
C20_Monotone ==
    [][/\ safes \subseteq safes'
       /\ mines \subseteq mines'
       /\ moves_made \subseteq moves_made'
       /\ Len(knowledge) <= Len(knowledge')
       /\ \A i \in DOMAIN knowledge : knowledge'[i].cells \subseteq knowledge[i].cells]_vars

C20_Witness ==
    /\ Returned("mark_safe")
    /\ Len(knowledge) = 2
    /\ \E i \in DOMAIN knowledge : knowledge[i].cells = {}
    /\ mines \ safes # {}
    /\ safes \ moves_made # {}
====
